---- MODULE Spec2Model ----
(***************************************************************************)
(* Model of the iCloud photo downloader's ingestion pipelines.             *)
(*                                                                         *)
(* Two pipelines are modelled:                                             *)
(*   Spec      the script pipeline download_all_photos / process_photo of  *)
(*             temp_solution.py (processed_ids, unique_photo_keys, stats,  *)
(*             progress log), against a library whose downloads and moves  *)
(*             may fail;                                                   *)
(*   SpecQuiet the same pipeline when no download and no move fails, with  *)
(*             one more asset, while enumerations may fail;                *)
(*   SpecLoc   the same pipeline, without faults, over a library of        *)
(*             assets with GPS coordinates;                                *)
(*   SpecCancel  the same pipeline, without faults, which a keyboard       *)
(*             interrupt may end while a section is processed;             *)
(*   SpecColl  the same pipeline, without faults, over a library of        *)
(*             equally named assets;                                       *)
(*   SpecLive  either pipeline, over a library of two live photos whose    *)
(*             names differ in the extension only;                         *)
(*   SpecPkg   the package pipeline PhotoDownloader._download_all_photos / *)
(*             _process_single_photo (_photo_hashes, self.stats);          *)
(*   SpecStart PhotoDownloader.start: the disk space gate, then the        *)
(*             package pipeline without faults;                            *)
(*   SpecAll   a run of either pipeline.                                   *)
(*                                                                         *)
(* Representation.  TLC has no string operations, so formatted strings are *)
(* kept as the structured values the code formats:                         *)
(*   optional values (getattr(.., None)) are sequences of length 0 or 1;   *)
(*   a filename is [stem, ext] (os.path.splitext);                         *)
(*   strftime("%Y%m%d_%H%M%S") is the pair of numbers YYYYMMDD, HHMMSS;    *)
(*   a path is [dir, name]: dir a sequence of components, name the         *)
(*   record [prefix, stem, suffix, ext], suffix the digits f"_{n:03d}"     *)
(*   (or f"_{n}") puts before the extension.                               *)
(* sha256 is taken to be collision free: the digest is modelled by a       *)
(* tagged copy of the byte string it was computed from.                    *)
(***************************************************************************)
EXTENDS Integers, Sequences, FiniteSets, TLC

\* ------------------------------------------------------------------ bounds
\* Total number of assets the remote library yields in one run, all sections.
MaxAssets == 2
\* The same for the runs of an environment that raises no fault (SpecQuiet).
MaxQuietAssets == 3
\* The same for the runs over the library of located assets (SpecLoc).
MaxLocAssets == 2
\* The same for the runs a keyboard interrupt may end (SpecCancel).
MaxCancelAssets == 2
\* The same for the runs over the library of live photos (SpecLive).
MaxLiveAssets == 2

\* The same for the runs over the library of equally named assets (SpecColl).
MaxCollAssets == 3
\* The same for the runs of PhotoDownloader.start (SpecStart).
MaxStartAssets == 2

\* ------------------------------------------------------- the asset universe
None == <<>>
Some(v) == <<v>>

Ids == {None, Some("A1")}
Filenames == {[stem |-> "IMG_1", ext |-> ".heic"], [stem |-> "IMG_2", ext |-> ".jpg"]}
Dates == {None, Some([year |-> 2024, month |-> 3, day |-> 1, hour |-> 10, minute |-> 0, second |-> 0])}
Contents == {<<1>>, <<2>>}
VideoContent == <<7, 7>>
Locations == {None}
\* _asset_record['fields']['locationEnc'], decoded: absent in this universe.
EncodedLocations == {None}
\* The shared albums of the remote library, each yielded at most once.
AlbumNames == {"Trip"}

\* An asset as the remote library client presents it: id and created may be
\* absent, live says that versions holds a video entry.
AssetRecords ==
    [id : Ids, filename : Filenames, created : Dates, location : Locations,
     location_enc : EncodedLocations, content : Contents, live : BOOLEAN]

\* The remote library of a run.  An id names one underlying asset, so every
\* enumeration of A1 carries the same filename, timestamp and bytes (a live
\* photo); the assets without id vary in filename and bytes, and one of them
\* has no timestamp.
CoreAssets ==
    {a \in AssetRecords :
        /\ a.live <=> a.id # None
        /\ a.id # None => a.filename.stem = "IMG_1" /\ a.created # None /\ a.content = <<1>>
        /\ a.created = None => a.filename.stem = "IMG_2" /\ a.content = <<1>>}

\* The assets without id that share one timestamp and the name IMG_2.jpg.
FallbackAssets ==
    {a \in CoreAssets : a.id = None /\ a.created # None /\ a.filename.stem = "IMG_2"}

\* Coordinates in 1/10000 degree: New York (40.7128, -74.0060), a point on
\* the equator and a point on the prime meridian.
NewYork == [latitude |-> 407128, longitude |-> -740060]
OnEquator == [latitude |-> 0, longitude |-> -740060]
OnMeridian == [latitude |-> 514779, longitude |-> 0]
LocLocations == {None, Some(NewYork), Some(OnEquator), Some(OnMeridian)}
\* The decoded locationEnc plist, when the asset record has one.
LocEncoded == {None, Some([lat |-> OnEquator.latitude, lon |-> OnEquator.longitude])}

\* A library of located assets: IMG_2.jpg without id at every location,
\* with and without an encoded location; IMG_1.heic without timestamp; and
\* one asset with an id whose name and timestamp equal those of the others.
LocAssets ==
    {a \in [id : Ids, filename : Filenames, created : Dates, location : LocLocations,
            location_enc : LocEncoded, content : Contents, live : {FALSE}] :
        /\ a.id # None =>
              /\ a.filename.stem = "IMG_2" /\ a.created # None /\ a.content = <<2>>
              /\ a.location = Some(NewYork) /\ a.location_enc = None
        /\ a.id = None => a.content = <<1>>
        /\ a.created = None =>
              a.filename.stem = "IMG_1" /\ a.location = Some(NewYork) /\ a.location_enc = None
        /\ a.created # None => a.filename.stem = "IMG_2"
        /\ a.location_enc # None => a.location \in {None, Some(OnEquator)}}

\* A library of live photos: IMG_1.heic and IMG_1.jpg without id, taken in
\* the same second at the same place, with different bytes, each with a
\* video variant.
LiveAssets ==
    {[id |-> None, filename |-> [stem |-> "IMG_1", ext |-> ext],
      created |-> Some([year |-> 2024, month |-> 3, day |-> 1,
                        hour |-> 10, minute |-> 0, second |-> 0]),
      location |-> None, location_enc |-> None,
      content |-> IF ext = ".heic" THEN <<1>> ELSE <<2>>, live |-> TRUE] :
        ext \in {".heic", ".jpg"}}

\* A library of equally named assets: IMG_1.heic, taken in one second, under
\* the ids A1, A2 and A3 with different bytes, and once without id.
CollAssets ==
    {[id |-> id, filename |-> [stem |-> "IMG_1", ext |-> ".heic"],
      created |-> Some([year |-> 2024, month |-> 3, day |-> 1, hour |-> 10, minute |-> 0, second |-> 0]),
      location |-> None, location_enc |-> None,
      content |-> IF id \in {None, Some("A1")} THEN <<1>> ELSE <<2>>, live |-> FALSE] :
        id \in {None, Some("A1"), Some("A2"), Some("A3")}}

\* -------------------------------------------------------- pure functions
\* get_file_type_folder: extension (lower-cased) to category, else Others.
Lower(ext) ==
    CASE ext = ".HEIC" -> ".heic"
      [] ext = ".JPG" -> ".jpg"
      [] ext = ".JPEG" -> ".jpeg"
      [] ext = ".MOV" -> ".mov"
      [] OTHER -> ext

get_file_type_folder(filename) ==
    LET ext == Lower(filename.ext) IN
    CASE ext = ".heic" -> "HEIC"
      [] ext \in {".jpg", ".jpeg"} -> "JPEG"
      [] ext = ".png" -> "PNG"
      [] ext \in {".mov", ".mp4", ".m4v"} -> "Videos"
      [] ext = ".gif" -> "GIF"
      [] ext \in {".raw", ".dng", ".cr2", ".arw"} -> "RAW"
      [] OTHER -> "Others"

\* creation_date.strftime("%Y%m%d_%H%M%S"), or the literal unknown_date.
Strftime(d) ==
    [kind |-> "date",
     ymd |-> d.year * 10000 + d.month * 100 + d.day,
     hms |-> d.hour * 10000 + d.minute * 100 + d.second]

UnknownDate == [kind |-> "unknown_date", ymd |-> 0, hms |-> 0]
NoPrefix == [kind |-> "none", ymd |-> 0, hms |-> 0]

\* A directory component: a literal string, str(year) of a number, or the
\* location bucket f"Lat{lat}_Lon{lon}" of two rounded coordinates.
Lit(s) == [lit |-> s, n |-> 0, m |-> 0]
Num(n) == [lit |-> "", n |-> n, m |-> 0]
LatLon(lat, lon) == [lit |-> "Lat_Lon", n |-> lat, m |-> lon]
UnknownYear == Lit("unknown_year")

\* process_photo, lines 302-308: hasattr(photo, 'created') decides both.
DateStrOf(photo) ==
    IF photo.created # None THEN Strftime(photo.created[1]) ELSE UnknownDate

\* A default year in place of the literal unknown_year.
YearOf_Epoch(photo) ==
    IF photo.created # None THEN Num(photo.created[1].year) ELSE Num(1970)

YearOf(photo) ==
    IF photo.created # None THEN Num(photo.created[1].year) ELSE UnknownYear

\* round(float(x), 2) on a coordinate held in 1/10000 degree, as hundredths.
Round2(x) ==
    LET a == IF x < 0 THEN -x ELSE x
        q == a \div 100
        r == a % 100
        up == IF r > 50 \/ (r = 50 /\ q % 2 = 1) THEN q + 1 ELSE q
    IN IF x < 0 THEN -up ELSE up

\* `loc.get('latitude') or loc.get('lat')`: a coordinate of 0 is falsy, the
\* alternate key is absent, and the result is None like a missing one.
GetCoordinate(value) == IF value = 0 THEN None ELSE Some(value)

\* get_location_name, lines 102-111: the coordinates the location dict
\* yields, when it yields both.
LocationOf(photo) ==
    IF photo.location = None THEN None
    ELSE LET lat == GetCoordinate(photo.location[1].latitude)
             lon == GetCoordinate(photo.location[1].longitude)
         IN IF lat # None /\ lon # None
            THEN Some([latitude |-> lat[1], longitude |-> lon[1]])
            ELSE None

\* get_location_name, lines 129-147: the coordinates of the decoded
\* locationEnc plist, tested with `is not None`.
EncodedLocationOf(photo) ==
    IF photo.location_enc = None THEN None
    ELSE Some([latitude |-> photo.location_enc[1].lat,
               longitude |-> photo.location_enc[1].lon])

\* get_location_name: the coordinates of the location attribute, else of
\* the encoded location, rounded to 2 decimals; else Unknown_Location.
get_location_name(photo) ==
    LET loc == LocationOf(photo)
        enc == EncodedLocationOf(photo)
    IN IF loc # None THEN LatLon(Round2(loc[1].latitude), Round2(loc[1].longitude))
       ELSE IF enc # None THEN LatLon(Round2(enc[1].latitude), Round2(enc[1].longitude))
       ELSE Lit("Unknown_Location")

\* compute_sha256 / os.path.getsize of the staged bytes.
compute_sha256(bytes) == <<"sha256", bytes>>
getsize(bytes) == Len(bytes)

\* f"{counter:03d}" as its digits (at least three).
RECURSIVE DigitsOf(_)
DigitsOf(n) == IF n < 10 THEN <<n>> ELSE Append(DigitsOf(n \div 10), n % 10)

\* f"{counter}": the digits without padding.
Pad3_Unpadded(n) == DigitsOf(n)

Pad3(n) ==
    LET d == DigitsOf(n) IN
    IF Len(d) >= 3 THEN d ELSE [i \in 1..3 |-> IF i <= 3 - Len(d) THEN 0 ELSE d[i - (3 - Len(d))]]

\* A file name: f"{date_str}_{original_filename}" with the suffix before ext.
\* The original filename kept as it is, without the date in front.
FileName_NoPrefix(prefix, filename, suffix) ==
    [prefix |-> NoPrefix, stem |-> filename.stem, suffix |-> suffix, ext |-> filename.ext]

FileName(prefix, filename, suffix) ==
    [prefix |-> prefix, stem |-> filename.stem, suffix |-> suffix, ext |-> filename.ext]

Path(dir, name) == [dir |-> dir, name |-> name]

\* ------------------------------------------------------------------ state
VARIABLES
    pc,                 \* where download_all_photos / _download_all_photos is
    download_options,   \* which sections were selected (script)
    use_location_organization,
    config,             \* the options.* switches of the package's Config
    stats,              \* leaf -> count
    total_downloaded, errors, skipped,
    processed_ids,      \* unique ids of the assets downloaded so far
    unique_photo_keys,  \* (id, date_str, hash, size) of the assets admitted
    photo_hashes,       \* PhotoDownloader._photo_hashes
    log, entry_counter, \* download_progress_detailed.txt and its counter
    fs,                 \* final paths: path -> [content, mtime]
    tmp_files,          \* temporary files left on disk
    total, i,           \* len(photos) and the index of the section's loop
    albums_left, album_name,
    library,            \* the assets the remote library holds
    env,                \* the faults the environment may raise
    budget,             \* assets the remote library may still yield
    hist                \* what became of every asset enumerated so far

vars ==
    <<pc, download_options, use_location_organization, config, stats,
      total_downloaded, errors, skipped, processed_ids, unique_photo_keys,
      photo_hashes, log, entry_counter, fs, tmp_files, total, i, albums_left,
      album_name, library, env, budget, hist>>

\* The inputs of a run, which no step changes.
inputs == <<download_options, use_location_organization, config, library, env>>

\* Faults the environment may raise inside one process_photo call: the
\* download of the original, or the move to the final path.
Faults == {"none", "fetch", "move"}
\* Faults inside handle_live_photo: photo.download(version='video') raises
\* (before the file is opened), or raw.read() raises (after open(.., 'wb')).
VideoFaults == {"none", "download", "read"}

\* An environment: the per-asset faults it may raise and whether the
\* enumeration of a section may fail.
Env(faults, vfaults, section_faults) ==
    [faults |-> faults, vfaults |-> vfaults, section_faults |-> section_faults]

\* -------------------------------------------------------------- the log
\* log_entry: one line carrying entry_counter, then entry_counter += 1.
\* A message names its text and section and, where the f-string
\* interpolates them, the asset's filename and unique id.
PhotoMsg(text, sec, filename, uid) ==
    [text |-> text, sec |-> sec, filename |-> filename, uid |-> uid]

Msg(text, sec) == PhotoMsg(text, sec, None, None)

\* log_entry with the increment of entry_counter forgotten.
log_entry_NoIncrement(st, message, level) ==
    [log |-> Append(st.log, [n |-> st.entry_counter, level |-> level, message |-> message]),
     entry_counter |-> st.entry_counter]

log_entry(st, message, level) ==
    [log |-> Append(st.log, [n |-> st.entry_counter, level |-> level, message |-> message]),
     entry_counter |-> st.entry_counter + 1]

\* Consecutive log_entry calls with level INFO and no section.
RECURSIVE log_lines(_, _)
log_lines(st, texts) ==
    IF texts = <<>> THEN st
    ELSE log_lines(log_entry(st, Msg(Head(texts), ""), "INFO"), Tail(texts))

LogState == [log |-> log, entry_counter |-> entry_counter]

\* ------------------------------------------------- the dedup identities
\* get_unique_photo_id: the id, or f"{date_str}_{filename}".
IdUid(pid) == [kind |-> "id", id |-> pid, date_str |-> NoPrefix, filename |-> [stem |-> "", ext |-> ""]]
FallbackUid(date_str, filename) == [kind |-> "fallback", id |-> "", date_str |-> date_str, filename |-> filename]

get_unique_photo_id(photo) ==
    IF photo.id # None THEN IdUid(photo.id[1])
    ELSE FallbackUid(IF photo.created # None THEN Strftime(photo.created[1]) ELSE UnknownDate,
                     photo.filename)

\* process_photo, line 345: (photo_id, date_str, photo_hash, photo_size).
UniqueKey(photo, bytes) ==
    [photo_id |-> photo.id, date_str |-> DateStrOf(photo),
     photo_hash |-> compute_sha256(bytes), photo_size |-> getsize(bytes)]

\* ------------------------------------------------------ path planning
\* The layout with a month directory under the year.
PhotoDir_Month(photo, photo_type, album, by_location) ==
    IF album # None THEN <<Lit("Shared_Albums"), Lit(album[1])>>
    ELSE <<Lit(photo_type),
           IF by_location THEN get_location_name(photo)
           ELSE Lit(get_file_type_folder(photo.filename)),
           YearOf(photo),
           IF photo.created # None THEN Num(photo.created[1].month) ELSE Lit("unknown_month")>>

\* process_photo, lines 315-331.
PhotoDir(photo, photo_type, album, by_location) ==
    IF album # None THEN <<Lit("Shared_Albums"), Lit(album[1])>>
    ELSE IF by_location
         THEN <<Lit(photo_type), get_location_name(photo), YearOf(photo)>>
         ELSE <<Lit(photo_type), Lit(get_file_type_folder(photo.filename)), YearOf(photo)>>

\* process_photo, lines 351-356: the first of _001, _002, ... that does not
\* exist.
RECURSIVE FreeCounter(_, _, _, _)
FreeCounter(files, dir, base, counter) ==
    LET filepath == Path(dir, [base EXCEPT !.suffix = Pad3(counter)]) IN
    IF filepath \in DOMAIN files
    THEN FreeCounter(files, dir, base, counter + 1)
    ELSE filepath

\* process_photo, lines 350-356: the number of times os.path.exists is
\* evaluated by the loop's condition, the last one returning False.
RECURSIVE ExistenceChecks(_, _, _, _)
ExistenceChecks(files, dir, base, counter) ==
    LET filepath == Path(dir, IF counter = 0 THEN base ELSE [base EXCEPT !.suffix = Pad3(counter)]) IN
    IF filepath \in DOMAIN files
    THEN 1 + ExistenceChecks(files, dir, base, counter + 1)
    ELSE 1

\* The move without the os.path.exists loop.
ResolveCollision_Overwrite(files, dir, base) == Path(dir, base)

\* process_photo, lines 350-356: the base path, or the first free suffix.
ResolveCollision(files, dir, base) ==
    IF Path(dir, base) \in DOMAIN files
    THEN FreeCounter(files, dir, base, 1)
    ELSE Path(dir, base)

\* Writing one file: files maps path -> file.
WriteFile(files, path, file) ==
    [p \in DOMAIN files \cup {path} |-> IF p = path THEN file ELSE files[p]]

\* A file: the bytes moved or written to it, the times
\* preserve_original_timestamps gave it (none for a missing created) and the
\* tags embedded into it after the move.
File(bytes, created, tags) == [content |-> bytes, mtime |-> created, tags |-> tags]

\* save_metadata: for .jpg / .jpeg the creation date and the location are
\* inserted into the file's EXIF container, in place; other files are left
\* alone.  A failure is printed as a warning.
save_metadata(photo) ==
    IF Lower(photo.filename.ext) \in {".jpg", ".jpeg"}
    THEN Some([created |-> photo.created, location |-> photo.location])
    ELSE None

\* The companion named after the planned name, without the collision suffix.
VideoPath_NoSuffix(base_path) ==
    Path(Append(base_path.dir, Lit("Videos")),
         [base_path.name EXCEPT !.ext = ".mov", !.suffix = <<>>])

\* handle_live_photo: the companion goes to <dir of the original>/Videos/
\* <final name without extension>.mov, written in place with open(.., 'wb').
VideoPath(base_path) ==
    Path(Append(base_path.dir, Lit("Videos")), [base_path.name EXCEPT !.ext = ".mov"])

handle_live_photo(photo, base_path, files, vfault) ==
    IF ~photo.live THEN [files |-> files, is_live |-> FALSE]
    ELSE IF vfault = "download" THEN [files |-> files, is_live |-> FALSE]
    ELSE IF vfault = "read"
         THEN [files |-> WriteFile(files, VideoPath(base_path), File(<<>>, None, None)), is_live |-> FALSE]
    ELSE [files |-> WriteFile(files, VideoPath(base_path), File(VideoContent, photo.created, None)),
          is_live |-> TRUE]

\* process_photo, lines 368-381: the leaf an asset is counted under.
Leaf(sec, cat, year) == [sec |-> sec, cat |-> cat, year |-> year]

StatsLeaf(photo, photo_type, album) ==
    IF album # None THEN Leaf("Shared_Albums", album[1], Lit(""))
    ELSE Leaf(photo_type, get_file_type_folder(photo.filename), YearOf(photo))

\* The counter set to 1 where it should be incremented.
Increment_Reset(st, leaf) ==
    [l \in DOMAIN st \cup {leaf} |-> IF l = leaf THEN 1 ELSE st[l]]

Increment(st, leaf) ==
    [l \in DOMAIN st \cup {leaf} |->
        IF l = leaf THEN (IF l \in DOMAIN st THEN st[l] ELSE 0) + 1 ELSE st[l]]

\* The membership test left out.
KeySeen_Never(unique_key, keys) == FALSE

\* The membership test of line 346.
KeySeen(unique_key, keys) == unique_key \in keys

\* The handler taking the key back out of the set.
OnMoveError_Rollback(unique_key, keys) == keys \ {unique_key}

\* Lines 349, 359 and 383-385: the key was added before shutil.move, and
\* the except clause that catches the move's exception leaves the set alone.
OnMoveError(unique_key, keys) == keys \cup {unique_key}

\* process_photo: what the call returns and what it leaves behind.
process_photo(photo, photo_type, album, fault, vfault) ==
    LET base == FileName(DateStrOf(photo), photo.filename, <<>>)
        photo_dir == PhotoDir(photo, photo_type, album, use_location_organization)
        bytes == photo.content
        unique_key == UniqueKey(photo, bytes)
        same == [success |-> FALSE, is_live |-> FALSE, filepath |-> None,
                 outcome |-> "fetch_failed", stats |-> stats, keys |-> unique_photo_keys,
                 fs |-> fs, tmp_files |-> tmp_files]
    IN
    IF fault = "fetch"
    THEN \* NamedTemporaryFile(delete=False) was created, download raised
         [same EXCEPT !.tmp_files = tmp_files + 1]
    ELSE IF KeySeen(unique_key, unique_photo_keys)
    THEN \* os.remove(tmp_file_path); return False, False, None
         [same EXCEPT !.outcome = "dup_key"]
    ELSE LET filepath == ResolveCollision(fs, photo_dir, base) IN
         IF fault = "move"
         THEN [same EXCEPT !.outcome = "move_failed",
                           !.keys = OnMoveError(unique_key, unique_photo_keys),
                           !.tmp_files = tmp_files + 1]
         ELSE LET moved == WriteFile(fs, filepath, File(bytes, photo.created, save_metadata(photo)))
                  live == handle_live_photo(photo, filepath, moved, vfault)
              IN [success |-> TRUE, is_live |-> live.is_live, filepath |-> Some(filepath),
                  outcome |-> "committed",
                  stats |-> Increment(stats, StatsLeaf(photo, photo_type, album)),
                  keys |-> unique_photo_keys \cup {unique_key},
                  fs |-> live.files, tmp_files |-> tmp_files]

\* ------------------------------------------- download_all_photos (script)
\* get_download_options, lines 772-777: the four menu choices.
DownloadOptions ==
    {[personal |-> TRUE, shared |-> FALSE, albums |-> FALSE],
     [personal |-> FALSE, shared |-> TRUE, albums |-> FALSE],
     [personal |-> FALSE, shared |-> FALSE, albums |-> TRUE],
     [personal |-> TRUE, shared |-> TRUE, albums |-> TRUE]}

\* Progress lines: every 100 (personal), 50 (shared), 25 (album) photos.
ProgressPersonal == 100
ProgressShared == 50
ProgressAlbum == 25

EmptyMap == [x \in {} |-> 0]

\* The package's switches, which the script does not read.
NoConfig ==
    [download_shared |-> FALSE, download_albums |-> FALSE,
     preserve_metadata |-> FALSE, handle_live_photos |-> FALSE]

\* The state both pipelines start from: nothing downloaded, nothing logged.
Fresh ==
    /\ stats = EmptyMap
    /\ total_downloaded = 0 /\ errors = 0 /\ skipped = 0
    /\ processed_ids = {} /\ unique_photo_keys = {} /\ photo_hashes = {}
    /\ log = <<>> /\ entry_counter = 1
    /\ fs = EmptyMap /\ tmp_files = 0
    /\ total = 0 /\ i = 0
    /\ albums_left = 0 /\ album_name = None
    /\ hist = <<>>

\* A run of the script against a library whose downloads and moves may fail.
Init ==
    /\ pc = "start"
    /\ download_options \in DownloadOptions
    /\ use_location_organization \in BOOLEAN
    /\ config = NoConfig
    /\ library = CoreAssets
    /\ env = Env(Faults, VideoFaults, {FALSE})
    /\ budget = MaxAssets
    /\ Fresh

\* A run of the script in which no download and no move fails, while the
\* enumeration of a section or of an album may.
InitQuiet ==
    /\ pc = "start"
    /\ download_options \in DownloadOptions
    /\ use_location_organization \in BOOLEAN
    /\ config = NoConfig
    /\ library = CoreAssets
    /\ env = Env({"none"}, {"none"}, BOOLEAN)
    /\ budget = MaxQuietAssets
    /\ Fresh

\* A run of the script over the library of located assets, without faults.
InitLoc ==
    /\ pc = "start"
    /\ download_options \in DownloadOptions
    /\ use_location_organization \in BOOLEAN
    /\ config = NoConfig
    /\ library = LocAssets
    /\ env = Env({"none"}, {"none"}, {FALSE})
    /\ budget = MaxLocAssets
    /\ Fresh

SetLog(st) == log' = st.log /\ entry_counter' = st.entry_counter

\* A run of the script over the library of equally named assets, without
\* faults.
InitColl ==
    /\ pc = "start"
    /\ download_options \in DownloadOptions
    /\ use_location_organization \in BOOLEAN
    /\ config = NoConfig
    /\ library = CollAssets
    /\ env = Env({"none"}, {"none"}, {FALSE})
    /\ budget = MaxCollAssets
    /\ Fresh

\* Lines 410-437: the log file is created and the session header logged.
Start ==
    /\ pc = "start"
    /\ SetLog(log_lines(LogState, <<"Starting download session", "All photos will be downloaded",
                                    "Output directory", "Location organization", "Download options">>))
    /\ pc' = "personal"
    /\ UNCHANGED <<inputs, stats, total_downloaded, errors, skipped, processed_ids,
                   unique_photo_keys, photo_hashes, fs, tmp_files, total, i, albums_left,
                   album_name, budget, hist>>

\* What one iteration of a section's loop records about its asset: the
\* asset, where it was enumerated, the faults raised while it was processed
\* and what became of it.
Outcome(photo, photo_type, album, fault, vfault, outcome, filepath) ==
    [photo |-> photo, photo_type |-> photo_type, album |-> album,
     fault |-> fault, vfault |-> vfault, outcome |-> outcome, filepath |-> filepath]

\* The skip that is not counted.
CountSkip_Never(n) == n

\* Lines 456, 513 and 577: skipped += 1.
CountSkip(n) == n + 1

\* One iteration of `for i, photo in enumerate(photos, 1)`: lines 452-487,
\* 509-544 and 573-608.
Iteration(photo_type, album, every) ==
    \E photo \in library, fault \in env.faults, vfault \in env.vfaults :
        LET uid == get_unique_photo_id(photo) IN
        /\ i' = i + 1
        /\ IF uid \in processed_ids
           THEN /\ skipped' = CountSkip(skipped)
                /\ SetLog(log_entry(LogState, PhotoMsg("SKIP duplicate by id", photo_type,
                                                    Some(photo.filename), Some(uid)), "INFO"))
                /\ hist' = Append(hist, Outcome(photo, photo_type, album, "none", "none",
                                                "skip_id", None))
                /\ UNCHANGED <<stats, total_downloaded, errors, processed_ids,
                               unique_photo_keys, fs, tmp_files>>
           ELSE LET r == process_photo(photo, photo_type, album, fault, vfault)
                    l1 == log_entry(LogState, PhotoMsg("Processing", photo_type,
                                                       Some(photo.filename), Some(uid)), "PROCESS")
                    l2 == IF r.success
                          THEN log_entry(l1, PhotoMsg("Downloaded", photo_type,
                                                         Some(photo.filename), Some(uid)), "SUCCESS")
                          \* f"Failed to download: {filename}"
                          ELSE log_entry(l1, PhotoMsg("Failed to download", photo_type,
                                                         Some(photo.filename), None), "ERROR")
                    l3 == IF r.success /\ r.is_live
                          THEN log_entry(l2, Msg("Live Photo video component saved", photo_type), "INFO")
                          ELSE l2
                    l4 == IF (i + 1) % every = 0
                          THEN log_entry(l3, Msg("Progress update", photo_type), "INFO")
                          ELSE l3
                    \* the faults that were raised: a fetch fault when the
                    \* download ran, a move fault when the move ran, a video
                    \* fault when the companion was fetched
                    f == IF r.outcome = "dup_key" THEN "none" ELSE fault
                    vf == IF r.success /\ photo.live THEN vfault ELSE "none"
                IN /\ stats' = r.stats
                   /\ unique_photo_keys' = r.keys
                   /\ fs' = r.fs
                   /\ tmp_files' = r.tmp_files
                   /\ processed_ids' = IF r.success THEN processed_ids \cup {uid} ELSE processed_ids
                   /\ total_downloaded' = IF r.success THEN total_downloaded + 1 ELSE total_downloaded
                   /\ errors' = IF r.success THEN errors ELSE errors + 1
                   /\ SetLog(l4)
                   /\ hist' = Append(hist, Outcome(photo, photo_type, album, f, vf,
                                                   r.outcome, r.filepath))
                   /\ UNCHANGED skipped

\* The number of assets a section's loop commits when it enumerates the
\* assets of photos in their order and nothing fails: lines 452-476 with
\* process_photo's lines 345-349, starting from the given processed_ids and
\* unique_photo_keys.
RECURSIVE CommittedTotal(_, _, _)
CommittedTotal(photos, ids, keys) ==
    IF photos = <<>> THEN 0
    ELSE LET photo == Head(photos)
             uid == get_unique_photo_id(photo)
             unique_key == UniqueKey(photo, photo.content)
         IN IF uid \in ids THEN CommittedTotal(Tail(photos), ids, keys)
            ELSE IF KeySeen(unique_key, keys) THEN CommittedTotal(Tail(photos), ids, keys)
            ELSE 1 + CommittedTotal(Tail(photos), ids \cup {uid}, keys \cup {unique_key})

\* No handler around the section: the exception leaves the function.
OnSectionError_Propagate(sec) == "raised"

\* Lines 489-490, 547-548 and 616-617: the except clause of a section logs
\* the error, and the function goes on behind the section's try statement.
OnSectionError(sec) ==
    IF sec = "Personal" THEN "shared"
    ELSE IF sec = "Shared_With_Me" THEN "albums"
    ELSE "summary"

\* Lines 440-450 and 489-495: the personal section is opened.
PersonalBegin ==
    /\ pc = "personal"
    /\ IF ~download_options.personal
       THEN /\ SetLog(log_lines(LogState, <<"Skipping Personal Library (not selected)">>))
            /\ pc' = "shared"
            /\ UNCHANGED <<total, i, budget>>
       ELSE \E enum_fault \in env.section_faults, n \in 0..budget :
            LET l1 == log_lines(LogState, <<"=", "Starting Personal Library Download", "=">>) IN
            IF enum_fault
            THEN /\ SetLog(log_lines(log_entry(l1, Msg("Error accessing", "Personal"), "ERROR"),
                                     <<"Personal Library Complete", "=">>))
                 /\ pc' = OnSectionError("Personal")
                 /\ UNCHANGED <<total, i, budget>>
            ELSE /\ SetLog(log_lines(l1, <<"Found", "Progress format", "Directory layout">>))
                 /\ total' = n /\ i' = 0 /\ budget' = budget - n
                 /\ pc' = "personal_loop"
    /\ UNCHANGED <<inputs, stats, total_downloaded, errors, skipped, processed_ids,
                   unique_photo_keys, photo_hashes, fs, tmp_files, albums_left, album_name, hist>>

PersonalPhoto ==
    /\ pc = "personal_loop" /\ i < total
    /\ Iteration("Personal", None, ProgressPersonal)
    /\ UNCHANGED <<pc, inputs, photo_hashes, total, albums_left, album_name, budget>>

\* Lines 492-493.
PersonalEnd ==
    /\ pc = "personal_loop" /\ i = total
    /\ SetLog(log_lines(LogState, <<"Personal Library Complete", "=">>))
    /\ pc' = "shared"
    /\ UNCHANGED <<inputs, stats, total_downloaded, errors, skipped, processed_ids,
                   unique_photo_keys, photo_hashes, fs, tmp_files, total, i, albums_left,
                   album_name, budget, hist>>

\* Lines 498-508 and 545-553: the shared section is opened; an empty
\* enumeration is falsy and logs "No shared photos found".
SharedBegin ==
    /\ pc = "shared"
    /\ IF ~download_options.shared
       THEN /\ SetLog(log_lines(LogState, <<"Skipping Photos Shared With You (not selected)">>))
            /\ pc' = "albums"
            /\ UNCHANGED <<total, i, budget>>
       ELSE \E enum_fault \in env.section_faults, n \in 0..budget :
            LET l1 == log_lines(LogState, <<"=", "Starting Photos Shared With You Download", "=">>) IN
            IF enum_fault
            THEN /\ SetLog(log_lines(log_entry(l1, Msg("Error accessing", "Shared_With_Me"), "ERROR"),
                                     <<"Shared Photos Complete", "=">>))
                 /\ pc' = OnSectionError("Shared_With_Me")
                 /\ UNCHANGED <<total, i, budget>>
            ELSE IF n = 0
            THEN /\ SetLog(log_lines(l1, <<"No shared photos found", "Shared Photos Complete", "=">>))
                 /\ pc' = "albums"
                 /\ UNCHANGED <<total, i, budget>>
            ELSE /\ SetLog(log_lines(l1, <<"Found", "Directory layout">>))
                 /\ total' = n /\ i' = 0 /\ budget' = budget - n
                 /\ pc' = "shared_loop"
    /\ UNCHANGED <<inputs, stats, total_downloaded, errors, skipped, processed_ids,
                   unique_photo_keys, photo_hashes, fs, tmp_files, albums_left, album_name, hist>>

SharedPhoto ==
    /\ pc = "shared_loop" /\ i < total
    /\ Iteration("Shared_With_Me", None, ProgressShared)
    /\ UNCHANGED <<pc, inputs, photo_hashes, total, albums_left, album_name, budget>>

\* Lines 550-551.
SharedEnd ==
    /\ pc = "shared_loop" /\ i = total
    /\ SetLog(log_lines(LogState, <<"Shared Photos Complete", "=">>))
    /\ pc' = "albums"
    /\ UNCHANGED <<inputs, stats, total_downloaded, errors, skipped, processed_ids,
                   unique_photo_keys, photo_hashes, fs, tmp_files, total, i, albums_left,
                   album_name, budget, hist>>

\* Lines 556-565 and 614-622: the list of shared albums is fetched.
AlbumsBegin ==
    /\ pc = "albums"
    /\ IF ~download_options.albums
       THEN /\ SetLog(log_lines(LogState, <<"Skipping Shared Albums (not selected)">>))
            /\ pc' = "summary"
            /\ UNCHANGED albums_left
       ELSE \E enum_fault \in env.section_faults, k \in 0..Cardinality(AlbumNames) :
            LET l1 == log_lines(LogState, <<"=", "Starting Shared Albums Download", "=">>) IN
            IF enum_fault
            THEN /\ SetLog(log_lines(log_entry(l1, Msg("Error accessing", "Shared_Albums"), "ERROR"),
                                     <<"Shared Albums Complete", "=">>))
                 /\ pc' = OnSectionError("Shared_Albums")
                 /\ UNCHANGED albums_left
            ELSE IF k = 0
            THEN /\ SetLog(log_lines(l1, <<"No shared albums found", "Shared Albums Complete", "=">>))
                 /\ pc' = "summary"
                 /\ UNCHANGED albums_left
            ELSE /\ SetLog(log_lines(l1, <<"Found", "Directory layout">>))
                 /\ albums_left' = k
                 /\ pc' = "album"
    /\ UNCHANGED <<inputs, stats, total_downloaded, errors, skipped, processed_ids,
                   unique_photo_keys, photo_hashes, fs, tmp_files, total, i, album_name,
                   budget, hist>>

\* Lines 566-571 and 612-613: one album is opened, or opening it raises.
AlbumBegin ==
    /\ pc = "album" /\ albums_left > 0
    /\ \E name \in AlbumNames, album_fault \in env.section_faults, n \in 0..budget :
         IF album_fault
         THEN /\ SetLog(log_entry(LogState, Msg("Error processing album", "Shared_Albums"), "ERROR"))
              /\ albums_left' = albums_left - 1
              /\ UNCHANGED <<pc, total, i, budget, album_name>>
         ELSE /\ SetLog(log_lines(LogState, <<"Processing album">>))
              /\ album_name' = Some(name)
              /\ total' = n /\ i' = 0 /\ budget' = budget - n
              /\ pc' = "album_loop"
              /\ UNCHANGED albums_left
    /\ UNCHANGED <<inputs, stats, total_downloaded, errors, skipped, processed_ids,
                   unique_photo_keys, photo_hashes, fs, tmp_files, hist>>

AlbumPhoto ==
    /\ pc = "album_loop" /\ i < total
    /\ Iteration("Shared_Albums", album_name, ProgressAlbum)
    /\ UNCHANGED <<pc, inputs, photo_hashes, total, albums_left, album_name, budget>>

\* Line 610.
AlbumEnd ==
    /\ pc = "album_loop" /\ i = total
    /\ SetLog(log_lines(LogState, <<"Album complete">>))
    /\ albums_left' = albums_left - 1
    /\ pc' = "album"
    /\ UNCHANGED <<inputs, stats, total_downloaded, errors, skipped, processed_ids,
                   unique_photo_keys, photo_hashes, fs, tmp_files, total, i, album_name,
                   budget, hist>>

\* Lines 619-620.
AlbumsEnd ==
    /\ pc = "album" /\ albums_left = 0
    /\ SetLog(log_lines(LogState, <<"Shared Albums Complete", "=">>))
    /\ pc' = "summary"
    /\ UNCHANGED <<inputs, stats, total_downloaded, errors, skipped, processed_ids,
                   unique_photo_keys, photo_hashes, fs, tmp_files, total, i, albums_left,
                   album_name, budget, hist>>

\* The file types of a section in the order stats[section] received them:
\* the order of the first commit of each type.
RECURSIVE TypesInOrder(_, _)
TypesInOrder(sec, k) ==
    IF k = 0 THEN <<>>
    ELSE LET prev == TypesInOrder(sec, k - 1)
             h == hist[k]
             file_type == get_file_type_folder(h.photo.filename)
         IN IF /\ h.outcome = "committed" /\ h.album = None /\ h.photo_type = sec
               /\ \A n \in 1..Len(prev) : prev[n] # file_type
            THEN Append(prev, file_type)
            ELSE prev

\* sorted(years.keys()) raises TypeError when the keys mix the numbers of
\* known years with the string unknown_year.
Sortable(years) == ~(\E y1, y2 \in years : y1.lit = "" /\ y2.lit # "")

\* Lines 642-647 and 652-657: per file type one line and then one line per
\* year in sorted order; lines counts the entries logged before the loop
\* ended or sorted() raised.
RECURSIVE TypeLines(_, _, _)
TypeLines(st, sec, file_types) ==
    IF file_types = <<>> THEN [lines |-> 0, raised |-> FALSE]
    ELSE LET years == {l.year : l \in {x \in DOMAIN st : x.sec = sec /\ x.cat = Head(file_types)}}
         IN IF ~Sortable(years) THEN [lines |-> 1, raised |-> TRUE]
            ELSE LET rest == TypeLines(st, sec, Tail(file_types))
                 IN [lines |-> 1 + Cardinality(years) + rest.lines, raised |-> rest.raised]

\* Lines 640-641 and 650-651: the statistics of one section, when stats has it.
SectionLines(st, sec) ==
    IF \A l \in DOMAIN st : l.sec # sec THEN [lines |-> 0, raised |-> FALSE]
    ELSE LET r == TypeLines(st, sec, TypesInOrder(sec, Len(hist)))
         IN [lines |-> 1 + r.lines, raised |-> r.raised]

\* Lines 639-663: the statistics of the personal section, of the shared
\* section and of the albums (one line per album), up to a TypeError.
StatsLines(st) ==
    LET personal == SectionLines(st, "Personal")
        shared == IF personal.raised THEN [lines |-> 0, raised |-> TRUE]
                  ELSE SectionLines(st, "Shared_With_Me")
        album_leaves == {l \in DOMAIN st : l.sec = "Shared_Albums"}
        albums_lines == IF shared.raised \/ album_leaves = {} THEN 0
                        ELSE 1 + Cardinality(album_leaves)
    IN [lines |-> [k \in 1..(personal.lines + shared.lines + albums_lines) |-> "Statistics"],
        raised |-> shared.raised]

\* Lines 625-668: the final summary.  An exception of the statistics loop
\* leaves download_all_photos, and main() does not catch it.
Summary ==
    /\ pc = "summary"
    /\ LET st == StatsLines(stats) IN
       /\ SetLog(log_lines(LogState,
               <<"=", "DOWNLOAD SESSION COMPLETE", "=", "Total files downloaded",
                 "Errors encountered", "Total unique assets processed",
                 "Skipped duplicates across sections", "Success rate",
                 "=", "DETAILED STATISTICS", "=">>
               \o st.lines
               \o IF st.raised THEN <<>> ELSE <<"=", "Download session ended", "=">>))
       /\ pc' = IF st.raised THEN "raised" ELSE "done"
    /\ UNCHANGED <<inputs, stats, total_downloaded, errors, skipped, processed_ids,
                   unique_photo_keys, photo_hashes, fs, tmp_files, total, i, albums_left,
                   album_name, budget, hist>>

\* download_all_photos has returned, or an exception has left it.
RunEnded == pc \in {"done", "raised"}

Next ==
    \/ Start
    \/ PersonalBegin \/ PersonalPhoto \/ PersonalEnd
    \/ SharedBegin \/ SharedPhoto \/ SharedEnd
    \/ AlbumsBegin \/ AlbumBegin \/ AlbumPhoto \/ AlbumEnd \/ AlbumsEnd
    \/ Summary

Spec == Init /\ [][Next]_vars

SpecQuiet == InitQuiet /\ [][Next]_vars

SpecLoc == InitLoc /\ [][Next]_vars

SpecColl == InitColl /\ [][Next]_vars

\* --------------------------------------------------- keyboard interrupt
\* A run of the script without faults which Ctrl-C may end.
InitCancel ==
    /\ pc = "start"
    /\ download_options \in DownloadOptions
    /\ use_location_organization \in BOOLEAN
    /\ config = NoConfig
    /\ library = CoreAssets
    /\ env = Env({"none"}, {"none"}, {FALSE})
    /\ budget = MaxCancelAssets
    /\ Fresh

\* Where the signal finds the loop of a section: between two calls, inside
\* photo.download() of the original (after NamedTemporaryFile created the
\* temp file), or inside handle_live_photo after open(video_path, 'wb').
InterruptPoints == {"between", "fetch", "video"}

\* The section whose loop is running.
SectionOf(loop) ==
    IF loop = "personal_loop" THEN "Personal"
    ELSE IF loop = "shared_loop" THEN "Shared_With_Me"
    ELSE "Shared_Albums"

\* KeyboardInterrupt is raised while the loop of a section runs.  It is not
\* an Exception: no handler of process_photo, handle_live_photo or
\* download_all_photos catches it and main() has none, so it leaves the
\* function with whatever the interrupted call has done so far.
Interrupt ==
    /\ pc \in {"personal_loop", "shared_loop", "album_loop"}
    /\ \E point \in InterruptPoints :
         IF point = "between"
         THEN UNCHANGED <<log, entry_counter, fs, tmp_files, unique_photo_keys, i, hist>>
         ELSE \E photo \in library :
              LET uid == get_unique_photo_id(photo)
                  photo_type == SectionOf(pc)
                  album == IF pc = "album_loop" THEN album_name ELSE None
                  r == process_photo(photo, photo_type, album, "none", "read")
              IN /\ i < total
                 /\ uid \notin processed_ids
                 /\ point = "video" => photo.live /\ r.outcome = "committed"
                 /\ i' = i + 1
                 /\ SetLog(log_entry(LogState, PhotoMsg("Processing", photo_type,
                                                        Some(photo.filename), Some(uid)), "PROCESS"))
                 /\ IF point = "fetch"
                    THEN /\ tmp_files' = tmp_files + 1
                         /\ UNCHANGED <<fs, unique_photo_keys>>
                    ELSE /\ fs' = r.fs
                         /\ unique_photo_keys' = r.keys
                         /\ UNCHANGED tmp_files
                 /\ hist' = Append(hist, Outcome(photo, photo_type, album, "none", "none",
                                                 "interrupted",
                                                 IF point = "video" THEN r.filepath ELSE None))
    /\ pc' = "interrupted"
    /\ UNCHANGED <<inputs, stats, total_downloaded, errors, skipped, processed_ids,
                   photo_hashes, total, albums_left, album_name, budget>>

NextCancel == Next \/ Interrupt

SpecCancel == InitCancel /\ [][NextCancel]_vars

\* ------------------------------------- PhotoDownloader (package pipeline)
\* safe_filename: the characters <>:"/\|?* become underscores and names
\* over 255 characters are cut; the stems of the asset universe hold none
\* of these characters and are short, so their filenames come back
\* unchanged.
UnsafeStems == {}

safe_filename(filename) ==
    IF filename.stem \in UnsafeStems THEN [filename EXCEPT !.stem = "_"] ELSE filename

\* get_file_type: the same table as get_file_type_folder.
get_file_type(filename) ==
    LET ext == Lower(filename.ext) IN
    CASE ext = ".heic" -> "HEIC"
      [] ext \in {".jpg", ".jpeg"} -> "JPEG"
      [] ext = ".png" -> "PNG"
      [] ext \in {".mov", ".mp4", ".m4v"} -> "Videos"
      [] ext = ".gif" -> "GIF"
      [] ext \in {".raw", ".dng", ".cr2", ".arw"} -> "RAW"
      [] OTHER -> "Others"

\* _get_photo_date: (created.year, created.month), or the two strings
\* "unknown_year", "unknown_month".
UnknownMonth == Lit("unknown_month")

get_photo_date(photo) ==
    IF photo.created # None
    THEN [year |-> Num(photo.created[1].year), month |-> Num(photo.created[1].month)]
    ELSE [year |-> UnknownYear, month |-> UnknownMonth]

\* f"{month:02d}-{month_name}" of a month number.
MonthDir(m) == [lit |-> "MM-MonthName", n |-> m, m |-> 0]

\* create_directory_structure: <base>/<file_type>/<year>/<MM-MonthName>.
\* calendar.month_name[month] raises for a month that is not a number in
\* 0..12 (the exception is logged and raised again): no directory comes back.
create_directory_structure(base_dir, file_type, year, month) ==
    IF month.lit # "" \/ month.n \notin 0..12
    THEN None
    ELSE Some(base_dir \o <<Lit(file_type), year, MonthDir(month.n)>>)

\* _process_single_photo, lines 232-243: the path itself, or the first of
\* _1, _2, ... that does not exist.
RECURSIVE FreeIndex(_, _, _, _)
FreeIndex(files, dir, base, idx) ==
    LET new_filepath == Path(dir, [base EXCEPT !.suffix = DigitsOf(idx)]) IN
    IF new_filepath \in DOMAIN files
    THEN FreeIndex(files, dir, base, idx + 1)
    ELSE new_filepath

PkgResolveCollision(files, dir, base) ==
    IF Path(dir, base) \notin DOMAIN files
    THEN Path(dir, base)
    ELSE FreeIndex(files, dir, base, 1)

\* _handle_live_photo: the companion goes to <parent of the original's
\* directory>/Videos/<final name without extension>.mov.
PkgVideoPath(photo_path) ==
    Path(Append(SubSeq(photo_path.dir, 1, Len(photo_path.dir) - 1), Lit("Videos")),
         [photo_path.name EXCEPT !.ext = ".mov"])

PkgHandleLivePhoto(photo, photo_path, files, vfault) ==
    IF ~photo.live \/ vfault = "download" THEN files
    ELSE IF vfault = "read"
         THEN WriteFile(files, PkgVideoPath(photo_path), File(<<>>, None, None))
    ELSE WriteFile(files, PkgVideoPath(photo_path), File(VideoContent, photo.created, None))

\* The membership test of line 224.
HashSeen(photo_hash, hashes) == photo_hash \in hashes

\* _process_single_photo: what the call returns and what it leaves behind.
PkgProcessSinglePhoto(photo, photo_type, album, fault, vfault) ==
    LET filename == safe_filename(photo.filename)
        created_date == photo.created
        date == get_photo_date(photo)
        photo_dir == IF album # None
                     THEN Some(<<Lit("Shared_Albums"), Lit(album[1])>>)
                     ELSE create_directory_structure(<<Lit(photo_type)>>, get_file_type(filename),
                                                     date.year, date.month)
        prefix == IF created_date # None THEN Strftime(created_date[1]) ELSE NoPrefix
        base == FileName(prefix, filename, <<>>)
        photo_hash == compute_sha256(photo.content)
        same == [success |-> FALSE, filepath |-> None, outcome |-> "error",
                 hashes |-> photo_hashes, fs |-> fs, tmp_files |-> tmp_files]
    IN
    IF photo_dir = None
    THEN \* create_directory_structure raised: caught at line 257
         same
    ELSE IF fault = "fetch"
    THEN [same EXCEPT !.outcome = "fetch_failed", !.tmp_files = tmp_files + 1]
    ELSE IF HashSeen(photo_hash, photo_hashes)
    THEN [same EXCEPT !.outcome = "dup_hash"]
    ELSE LET filepath == PkgResolveCollision(fs, photo_dir[1], base) IN
         IF fault = "move"
         THEN [same EXCEPT !.outcome = "move_failed",
                           !.hashes = photo_hashes \cup {photo_hash},
                           !.tmp_files = tmp_files + 1]
         ELSE LET mtime == IF config.preserve_metadata THEN created_date ELSE None
                  tags == IF config.preserve_metadata THEN save_metadata(photo) ELSE None
                  moved == WriteFile(fs, filepath, File(photo.content, mtime, tags))
                  final == IF config.handle_live_photos
                           THEN PkgHandleLivePhoto(photo, filepath, moved, vfault)
                           ELSE moved
              IN [success |-> TRUE, filepath |-> Some(filepath), outcome |-> "committed",
                  hashes |-> photo_hashes \cup {photo_hash}, fs |-> final,
                  tmp_files |-> tmp_files]

\* _update_stats: the album's counter, or the counter of
\* library / file type / year / month.
PkgLeaf(sec, cat, year, month) == [sec |-> sec, cat |-> cat, year |-> year, month |-> month]

PkgStatsLeaf(photo, library_type, album) ==
    IF album # None THEN PkgLeaf("Shared_Albums", album[1], Lit(""), Lit(""))
    ELSE PkgLeaf(library_type, get_file_type(photo.filename),
                 get_photo_date(photo).year, get_photo_date(photo).month)

\* The switches of Config that _download_all_photos and
\* _process_single_photo read.
Configs ==
    [download_shared : BOOLEAN, download_albums : BOOLEAN,
     preserve_metadata : BOOLEAN, handle_live_photos : BOOLEAN]

\* The library of the package's runs: A1 and the assets named IMG_2.jpg
\* (two with a timestamp and different bytes, one without timestamp).
PkgAssets == {a \in CoreAssets : a.id # None \/ a.filename.stem = "IMG_2"}

\* A run of PhotoDownloader._download_all_photos on a fresh instance.
InitPkg ==
    /\ pc = "pkg_personal"
    /\ config \in Configs
    /\ download_options = [personal |-> TRUE, shared |-> FALSE, albums |-> FALSE]
    /\ use_location_organization = FALSE
    /\ library = PkgAssets
    /\ env = Env(Faults, VideoFaults, BOOLEAN)
    /\ budget = MaxAssets
    /\ Fresh

\* The body of the loops of _download_photo_library and
\* _download_shared_albums: lines 121-127 and 148-159.
PkgIteration(library_type, album) ==
    \E photo \in library, fault \in env.faults, vfault \in env.vfaults :
        LET r == PkgProcessSinglePhoto(photo, library_type, album, fault, vfault)
            f == IF r.outcome \in {"error", "dup_hash"} THEN "none" ELSE fault
            vf == IF r.success /\ photo.live /\ config.handle_live_photos THEN vfault ELSE "none"
        IN /\ i' = i + 1
           /\ photo_hashes' = r.hashes
           /\ fs' = r.fs
           /\ tmp_files' = r.tmp_files
           /\ stats' = IF r.success
                       THEN Increment(stats, PkgStatsLeaf(photo, library_type, album))
                       ELSE stats
           /\ hist' = Append(hist, Outcome(photo, library_type, album, f, vf,
                                           r.outcome, r.filepath))

\* What the package pipeline never touches.
script_state ==
    <<total_downloaded, errors, skipped, processed_ids, unique_photo_keys, log, entry_counter>>

\* Lines 98-99 and 116-119: api.photos.all is enumerated (an exception
\* leaves _download_all_photos and start); an empty library is falsy.
PkgPersonalBegin ==
    /\ pc = "pkg_personal"
    /\ \E enum_fault \in env.section_faults, n \in 0..budget :
         IF enum_fault
         THEN pc' = "pkg_aborted" /\ UNCHANGED <<total, i, budget>>
         ELSE IF n = 0
         THEN pc' = "pkg_shared" /\ UNCHANGED <<total, i, budget>>
         ELSE /\ total' = n /\ i' = 0 /\ budget' = budget - n
              /\ pc' = "pkg_personal_loop"
    /\ UNCHANGED <<inputs, script_state, stats, photo_hashes, fs, tmp_files, albums_left,
                   album_name, hist>>

PkgPersonalPhoto ==
    /\ pc = "pkg_personal_loop" /\ i < total
    /\ PkgIteration("Personal", None)
    /\ UNCHANGED <<pc, inputs, script_state, total, albums_left, album_name, budget>>

PkgPersonalEnd ==
    /\ pc = "pkg_personal_loop" /\ i = total
    /\ pc' = "pkg_shared"
    /\ UNCHANGED <<inputs, script_state, stats, photo_hashes, fs, tmp_files, total, i,
                   albums_left, album_name, budget, hist>>

\* Lines 102-103 and 116-119.
PkgSharedBegin ==
    /\ pc = "pkg_shared"
    /\ IF ~config.download_shared
       THEN pc' = "pkg_albums" /\ UNCHANGED <<total, i, budget>>
       ELSE \E enum_fault \in env.section_faults, n \in 0..budget :
            IF enum_fault
            THEN pc' = "pkg_aborted" /\ UNCHANGED <<total, i, budget>>
            ELSE /\ total' = n /\ i' = 0 /\ budget' = budget - n
                 /\ pc' = "pkg_shared_loop"
    /\ UNCHANGED <<inputs, script_state, stats, photo_hashes, fs, tmp_files, albums_left,
                   album_name, hist>>

PkgSharedPhoto ==
    /\ pc = "pkg_shared_loop" /\ i < total
    /\ PkgIteration("Shared_With_Me", None)
    /\ UNCHANGED <<pc, inputs, script_state, total, albums_left, album_name, budget>>

PkgSharedEnd ==
    /\ pc = "pkg_shared_loop" /\ i = total
    /\ pc' = "pkg_albums"
    /\ UNCHANGED <<inputs, script_state, stats, photo_hashes, fs, tmp_files, total, i,
                   albums_left, album_name, budget, hist>>

\* Lines 106-107 and 135-140.
PkgAlbumsBegin ==
    /\ pc = "pkg_albums"
    /\ IF ~config.download_albums
       THEN pc' = "pkg_done" /\ UNCHANGED albums_left
       ELSE \E enum_fault \in env.section_faults, k \in 0..Cardinality(AlbumNames) :
            IF enum_fault
            THEN pc' = "pkg_aborted" /\ UNCHANGED albums_left
            ELSE IF k = 0
            THEN pc' = "pkg_done" /\ UNCHANGED albums_left
            ELSE albums_left' = k /\ pc' = "pkg_album"
    /\ UNCHANGED <<inputs, script_state, stats, photo_hashes, fs, tmp_files, total, i,
                   album_name, budget, hist>>

\* Lines 142-146 and 160-161: one album is opened, or opening it raises and
\* the loop goes on to the next album.
PkgAlbumBegin ==
    /\ pc = "pkg_album" /\ albums_left > 0
    /\ \E name \in AlbumNames, album_fault \in env.section_faults, n \in 0..budget :
         IF album_fault
         THEN /\ albums_left' = albums_left - 1
              /\ UNCHANGED <<pc, total, i, budget, album_name>>
         ELSE /\ album_name' = Some(name)
              /\ total' = n /\ i' = 0 /\ budget' = budget - n
              /\ pc' = "pkg_album_loop"
              /\ UNCHANGED albums_left
    /\ UNCHANGED <<inputs, script_state, stats, photo_hashes, fs, tmp_files, hist>>

PkgAlbumPhoto ==
    /\ pc = "pkg_album_loop" /\ i < total
    /\ PkgIteration("Shared_Albums", album_name)
    /\ UNCHANGED <<pc, inputs, script_state, total, albums_left, album_name, budget>>

PkgAlbumEnd ==
    /\ pc = "pkg_album_loop" /\ i = total
    /\ albums_left' = albums_left - 1
    /\ pc' = "pkg_album"
    /\ UNCHANGED <<inputs, script_state, stats, photo_hashes, fs, tmp_files, total, i,
                   album_name, budget, hist>>

PkgAlbumsEnd ==
    /\ pc = "pkg_album" /\ albums_left = 0
    /\ pc' = "pkg_done"
    /\ UNCHANGED <<inputs, script_state, stats, photo_hashes, fs, tmp_files, total, i,
                   albums_left, album_name, budget, hist>>

NextPkg ==
    \/ PkgPersonalBegin \/ PkgPersonalPhoto \/ PkgPersonalEnd
    \/ PkgSharedBegin \/ PkgSharedPhoto \/ PkgSharedEnd
    \/ PkgAlbumsBegin \/ PkgAlbumBegin \/ PkgAlbumPhoto \/ PkgAlbumEnd \/ PkgAlbumsEnd

SpecPkg == InitPkg /\ [][NextPkg]_vars

\* ------------------------------------------------ PhotoDownloader.start
\* The free space of the output drive in GB as shutil.disk_usage reports it
\* (None: disk_usage raises), and the values of download.required_space_gb.
DiskFree == {None, Some(0), Some(5), Some(10), Some(20)}
RequiredSpaces == {10}
\* What the user types at "Do you want to continue anyway? (y/n): ".
Answers == {"y", "Y", "n"}

\* check_disk_space, file_utils.py lines 13-39: the free space, after a
\* warning when it is below the required space and after a debug line when
\* it is not; None when disk_usage raised.
check_disk_space(free_gb, required_space_gb) ==
    IF free_gb = None THEN None
    ELSE IF free_gb[1] < required_space_gb
         THEN Some(free_gb[1])
         ELSE Some(free_gb[1])

\* Python's `not value` for an Optional[float]: None and 0.0 are false.
Not(value) == value = None \/ value[1] = 0

\* _confirm_continue, lines 82-89: response.lower() == 'y'.
confirm_continue(response) == response \in {"y", "Y"}

\* A run of PhotoDownloader.start: authenticated, the output directory set
\* up, in an environment that raises no fault while downloading.
InitStart ==
    /\ pc = "pkg_start"
    /\ config \in [download_shared : BOOLEAN, download_albums : BOOLEAN,
                   preserve_metadata : {FALSE}, handle_live_photos : {FALSE},
                   required_space_gb : RequiredSpaces]
    /\ download_options = [personal |-> TRUE, shared |-> FALSE, albums |-> FALSE]
    /\ use_location_organization = FALSE
    /\ library = PkgAssets
    /\ \E free_gb \in DiskFree, answer \in Answers :
          env = [faults |-> {"none"}, vfaults |-> {"none"}, section_faults |-> {FALSE},
                 free_gb |-> free_gb, answer |-> answer]
    /\ budget = MaxStartAssets
    /\ Fresh

\* start, lines 51-54: the disk space check and the branch on its result.
CheckDiskSpace ==
    /\ pc = "pkg_start"
    /\ pc' = IF Not(check_disk_space(env.free_gb, config.required_space_gb))
             THEN "pkg_confirm"
             ELSE "pkg_personal"
    /\ UNCHANGED <<inputs, script_state, stats, photo_hashes, fs, tmp_files, total, i,
                   albums_left, album_name, budget, hist>>

\* start, lines 55-60: the user is asked; "Download cancelled by user" and
\* return, or on to _download_all_photos.
ConfirmContinue ==
    /\ pc = "pkg_confirm"
    /\ pc' = IF confirm_continue(env.answer) THEN "pkg_personal" ELSE "pkg_cancelled"
    /\ UNCHANGED <<inputs, script_state, stats, photo_hashes, fs, tmp_files, total, i,
                   albums_left, album_name, budget, hist>>

NextStart == CheckDiskSpace \/ ConfirmContinue \/ NextPkg

SpecStart == InitStart /\ [][NextStart]_vars

\* Runs of either pipeline over the library of live photos, in which only
\* the fetch of a video may fail.
InitLive ==
    /\ \/ /\ pc = "start"
          /\ download_options \in DownloadOptions
          /\ use_location_organization \in BOOLEAN
          /\ config = NoConfig
       \/ /\ pc = "pkg_personal"
          /\ download_options = [personal |-> TRUE, shared |-> FALSE, albums |-> FALSE]
          /\ use_location_organization = FALSE
          /\ config \in Configs
    /\ library = LiveAssets
    /\ env = Env({"none"}, VideoFaults, {FALSE})
    /\ budget = MaxLiveAssets
    /\ Fresh

\* Both pipelines: a run is a run of the script or a run of the package.
InitAll == Init \/ InitPkg

NextAll == Next \/ NextPkg

SpecAll == InitAll /\ [][NextAll]_vars

SpecLive == InitLive /\ [][NextAll]_vars

\* ------------------------------------------------------------ properties
\* What hist says about the assets enumerated so far.
Entries == 1..Len(hist)

\* The key process_photo computes for the asset of an entry.
KeyOf(h) == UniqueKey(h.photo, h.photo.content)

\* The entry's key went into unique_photo_keys / the asset reached disk.
Admitted(h) == h.outcome \in {"committed", "move_failed"}
Committed(h) == h.outcome = "committed"
\* The entry was turned away as a duplicate: by processed_ids, by
\* unique_photo_keys or by _photo_hashes.
Rejected(h) == h.outcome \in {"skip_id", "dup_key", "dup_hash"}
\* A download or a move failed while the entry was processed.
Faulted(h) == h.outcome \in {"fetch_failed", "move_failed"}

CountEntries(P(_)) == Cardinality({k \in Entries : P(hist[k])})

\* C1: in a run of download_all_photos, no two assets with the same key
\* (id, date string, hash, size) are admitted, whether the first of them
\* was committed or its move failed; unique_photo_keys holds exactly the
\* keys admitted, and no two commits share a path.
C1_AtMostOneAdmittedPerKey ==
    /\ \A a, b \in Entries :
         a < b /\ Admitted(hist[a]) /\ Admitted(hist[b])
            => /\ KeyOf(hist[a]) # KeyOf(hist[b])
               /\ Committed(hist[a]) /\ Committed(hist[b])
                    => hist[a].filepath # hist[b].filepath
    /\ unique_photo_keys = {KeyOf(hist[k]) : k \in {e \in Entries : Admitted(hist[e])}}

\* An asset whose move failed is enumerated again and turned away by its key.
C1_Witness ==
    \E a, b \in Entries :
        /\ a < b
        /\ hist[a].outcome = "move_failed"
        /\ hist[b].outcome = "dup_key"
        /\ KeyOf(hist[a]) = KeyOf(hist[b])

\* C2: at the end of a run in which no download and no move failed, of the
\* occurrences of assets with one key (id, created, hash, size), when there
\* are two or more, exactly one is committed, its bytes are on disk, and
\* every other one is rejected as a duplicate.
C2_ExactlyOneCommitted ==
    RunEnded =>
        \A a, b \in Entries :
            a < b /\ KeyOf(hist[a]) = KeyOf(hist[b])
                => LET same == {k \in Entries : KeyOf(hist[k]) = KeyOf(hist[a])}
                       done == {k \in same : Committed(hist[k])}
                   IN /\ Cardinality(done) = 1
                      /\ \A k \in same \ done : Rejected(hist[k])
                      /\ \A k \in done :
                            /\ hist[k].filepath[1] \in DOMAIN fs
                            /\ fs[hist[k].filepath[1]].content = hist[k].photo.content

\* C3: an asset is rejected as a duplicate only if an asset with the same
\* key (identity, date string, hash, size) was admitted earlier in the run,
\* and an asset whose key differs from every key admitted so far is
\* admitted when its download does not fail; in both pipelines.
C3_RejectedOnlyIfSameKey ==
    \A b \in Entries :
        LET earlier == {a \in Entries : a < b /\ Admitted(hist[a])
                                        /\ KeyOf(hist[a]) = KeyOf(hist[b])}
        IN /\ Rejected(hist[b]) => earlier # {}
           /\ earlier = {} /\ hist[b].fault # "fetch" => Admitted(hist[b])

\* C4: two assets of one section, both IMG_2.jpg, without id, without
\* location, created at the same second, with different bytes: when the
\* first is committed and nothing fails for the second, the second is
\* committed too, under the first one's name with _001 before .jpg.
C4_BothCommitted ==
    \A a, b \in Entries :
        /\ a < b
        /\ hist[a].photo \in FallbackAssets /\ hist[b].photo \in FallbackAssets
        /\ hist[a].photo_type = hist[b].photo_type /\ hist[a].album = hist[b].album
        /\ hist[a].photo.created = hist[b].photo.created
        /\ hist[a].photo.content # hist[b].photo.content
        /\ Committed(hist[a]) /\ hist[a].filepath[1].name.suffix = <<>>
        /\ ~Faulted(hist[b])
        => /\ Committed(hist[b])
           /\ hist[b].filepath[1] =
                Path(hist[a].filepath[1].dir,
                     [hist[a].filepath[1].name EXCEPT !.suffix = <<0, 0, 1>>])

\* The asset and the path of scenario 1.
ScenarioA1 ==
    [id |-> Some("A1"), filename |-> [stem |-> "IMG_1", ext |-> ".heic"],
     created |-> Some([year |-> 2024, month |-> 3, day |-> 1, hour |-> 10, minute |-> 0, second |-> 0]),
     location |-> None, location_enc |-> None, content |-> <<1>>, live |-> TRUE]

ScenarioA1Path ==
    [dir |-> <<Lit("Personal"), Lit("HEIC"), Num(2024)>>,
     name |-> [prefix |-> [kind |-> "date", ymd |-> 20240301, hms |-> 100000],
               stem |-> "IMG_1", suffix |-> <<>>, ext |-> ".heic"]]

\* The run of scenario 1 has ended: Type/Year mode, the personal section
\* yielded A1, whose download and move did not fail, the shared section
\* yielded A1 again, and nothing else was enumerated.
Scenario1Ran ==
    /\ pc = "done"
    /\ ~use_location_organization
    /\ download_options.personal /\ download_options.shared
    /\ Len(hist) = 2
    /\ hist[1].photo = ScenarioA1 /\ hist[1].photo_type = "Personal"
    /\ ~Faulted(hist[1])
    /\ hist[2].photo = ScenarioA1 /\ hist[2].photo_type = "Shared_With_Me"

\* A companion video: a .mov in a Videos directory.
IsCompanion(path) == path.dir[Len(path.dir)] = Lit("Videos") /\ path.name.ext = ".mov"

\* C5: scenario 1 ends with exactly one original on disk, at
\* Personal/HEIC/2024/20240301_100000_IMG_1.heic with A1's bytes, no file
\* under Shared_With_Me, and exactly one SKIP log entry, which is the one
\* of the shared occurrence.
C5_Scenario1 ==
    Scenario1Ran =>
        /\ {path \in DOMAIN fs : ~IsCompanion(path)} = {ScenarioA1Path}
        /\ fs[ScenarioA1Path].content = ScenarioA1.content
        /\ hist[1].filepath = Some(ScenarioA1Path)
        /\ \A path \in DOMAIN fs : path.dir[1] # Lit("Shared_With_Me")
        /\ hist[2].outcome = "skip_id"
        /\ Cardinality({k \in 1..Len(log) : log[k].message.text = "SKIP duplicate by id"}) = 1
        /\ \A k \in 1..Len(log) :
              log[k].message.text = "SKIP duplicate by id" => log[k].message.sec = "Shared_With_Me"
        /\ total_downloaded = 1 /\ skipped = 1

C5_Witness == Scenario1Ran /\ skipped = 1

\* The path an original was meant for: its final path without the suffix.
Destination(path) == [path EXCEPT !.name.suffix = <<>>]

\* The step enumerates one asset and commits it.
CommitStep ==
    /\ Len(hist') = Len(hist) + 1
    /\ hist'[Len(hist')].outcome = "committed"

RECURSIVE SumOver(_, _)
SumOver(f, leaves) ==
    IF leaves = {} THEN 0
    ELSE LET leaf == CHOOSE l \in leaves : TRUE
         IN f[leaf] + SumOver(f, leaves \ {leaf})

SuccessEntries == {k \in 1..Len(log) : log[k].level = "SUCCESS"}

\* C7: at the end of a run of download_all_photos the sum of the leaves of
\* stats, the number of assets committed and the number of log entries of
\* level SUCCESS are one number.
C7_StatsLogConsistency ==
    RunEnded =>
        /\ SumOver(stats, DOMAIN stats) = CountEntries(Committed)
        /\ Cardinality(SuccessEntries) = CountEntries(Committed)

\* A run has ended in which one asset was committed and another one failed
\* or was turned away.
C7_Witness ==
    /\ RunEnded
    /\ CountEntries(Committed) = 1
    /\ CountEntries(Faulted) + CountEntries(Rejected) = 1

\* C8: the n-th line of the progress log carries the number n, from 1 on,
\* whatever its level and section.
C8_LogNumbersGapFree ==
    /\ \A n \in 1..Len(log) : log[n].n = n
    /\ entry_counter = Len(log) + 1

\* A run has ended whose log holds INFO, PROCESS, SUCCESS and ERROR lines
\* of two sections.
C8_Witness ==
    /\ pc = "done"
    /\ \A level \in {"INFO", "PROCESS", "SUCCESS", "ERROR"} :
          \E n \in 1..Len(log) : log[n].level = level
    /\ \E n, m \in 1..Len(log) :
          log[n].message.sec = "Personal" /\ log[m].message.sec = "Shared_Albums"

\* The asset of the entry has no created attribute.
NoCreated(h) == h.photo.created = None

\* process_photo had no reason other than the missing timestamp to turn
\* the asset away: no fault was raised and it was not a duplicate.
Clean(h) == h.fault = "none" /\ ~Rejected(h)

\* The committed entries without created that stats counts under a leaf.
CommittedUnder(leaf) ==
    {k \in Entries : /\ Committed(hist[k]) /\ NoCreated(hist[k])
                     /\ StatsLeaf(hist[k].photo, hist[k].photo_type, hist[k].album) = leaf}

C10_PkgUnknownYear ==
    \A k \in Entries :
        NoCreated(hist[k]) /\ hist[k].album = None /\ Clean(hist[k]) =>
            /\ Committed(hist[k])
            /\ \E d \in 1..Len(hist[k].filepath[1].dir) :
                  hist[k].filepath[1].dir[d] = UnknownYear

\* The step enumerates one asset; h is what became of it.
EnumStep == Len(hist') = Len(hist) + 1
Enumerated == hist'[Len(hist')]

\* The lines the step appends to the progress log.
NewLines == SubSeq(log', Len(log) + 1, Len(log'))
NewLinesWith(P(_)) == {n \in 1..Len(NewLines) : P(NewLines[n])}
IsSkipLine(line) == line.message.text = "SKIP duplicate by id"
IsErrorLine(line) == line.level = "ERROR"

\* C11: a step of download_all_photos that turns an asset away as a
\* duplicate, by processed_ids or by unique_photo_keys, appends exactly one
\* SKIP line and adds one to skipped; it appends no ERROR line and leaves
\* errors alone.
C11_DuplicateIsSkipped ==
    [][EnumStep /\ Rejected(Enumerated) =>
        /\ Cardinality(NewLinesWith(IsSkipLine)) = 1
        /\ skipped' = skipped + 1
        /\ NewLinesWith(IsErrorLine) = {}
        /\ errors' = errors]_vars

\* C12: a step of download_all_photos whose asset fails (its download or
\* its move raises) appends exactly one ERROR line, which names the asset's
\* filename and its unique id, adds one to errors, and leaves the loop of
\* the section running with the next index.
C12_FailureLoggedWithId ==
    [][EnumStep /\ Faulted(Enumerated) =>
        /\ Cardinality(NewLinesWith(IsErrorLine)) = 1
        /\ \A n \in NewLinesWith(IsErrorLine) :
              /\ NewLines[n].message.filename = Some(Enumerated.photo.filename)
              /\ NewLines[n].message.uid = Some(get_unique_photo_id(Enumerated.photo))
        /\ errors' = errors + 1
        /\ pc' = pc /\ i' = i + 1 /\ total' = total]_vars

\* The step logs that the enumeration of a section failed.
IsSectionError(line) == line.message.text = "Error accessing"
SectionErrors(l, sec) ==
    {n \in 1..Len(l) : IsSectionError(l[n]) /\ l[n].message.sec = sec}
SectionFailStep == NewLinesWith(IsSectionError) # {}

\* The sections a run selected, and the lines that open and close each.
Selected ==
    {sec \in {"Personal", "Shared_With_Me", "Shared_Albums"} :
        \/ sec = "Personal" /\ download_options.personal
        \/ sec = "Shared_With_Me" /\ download_options.shared
        \/ sec = "Shared_Albums" /\ download_options.albums}
StartingLine(sec) ==
    IF sec = "Personal" THEN "Starting Personal Library Download"
    ELSE IF sec = "Shared_With_Me" THEN "Starting Photos Shared With You Download"
    ELSE "Starting Shared Albums Download"
CompleteLine(sec) ==
    IF sec = "Personal" THEN "Personal Library Complete"
    ELSE IF sec = "Shared_With_Me" THEN "Shared Photos Complete"
    ELSE "Shared Albums Complete"
LinesWithText(l, text) == {n \in 1..Len(l) : l[n].message.text = text}

\* C13: a step of download_all_photos in which the enumeration of a
\* section (personal library, shared library, list of albums) raises logs
\* exactly one ERROR line, processes no asset and changes no file and no
\* counter, and hands control to the next section; when the run has ended,
\* every selected section was opened and closed exactly once, each failed
\* at most once, and every asset enumerated belongs to a selected section.
C13_SectionFailureIsContained ==
    [][/\ SectionFailStep =>
            /\ Cardinality(NewLinesWith(IsErrorLine)) = 1
            /\ UNCHANGED <<hist, fs, stats, total_downloaded, errors, skipped,
                           processed_ids, unique_photo_keys, tmp_files>>
            /\ \/ pc = "personal" /\ pc' = "shared"
               \/ pc = "shared" /\ pc' = "albums"
               \/ pc = "albums" /\ pc' = "summary"
       /\ RunEnded' =>
            /\ \A sec \in Selected :
                  /\ Cardinality(LinesWithText(log', StartingLine(sec))) = 1
                  /\ Cardinality(LinesWithText(log', CompleteLine(sec))) = 1
                  /\ Cardinality(SectionErrors(log', sec)) <= 1
            /\ \A k \in 1..Len(hist') :
                  /\ hist'[k].photo_type \in Selected
                  /\ SectionErrors(log', hist'[k].photo_type) = {}]_vars

\* A run has ended in which the enumeration of the personal library
\* failed and an asset of the shared library was committed afterwards.
C13_Witness ==
    /\ RunEnded
    /\ SectionErrors(log, "Personal") # {}
    /\ \E k \in Entries : Committed(hist[k]) /\ hist[k].photo_type = "Shared_With_Me"

\* C14: in the package pipeline, a step that opens a section (personal
\* library, shared library, shared albums) either enters the section or,
\* when the section is empty, not selected or its enumeration raises,
\* goes on to the next section: no enumeration failure ends the run.
C14_PkgSectionFailureIsContained ==
    [][/\ pc = "pkg_personal" => pc' \in {"pkg_personal_loop", "pkg_shared"}
       /\ pc = "pkg_shared" => pc' \in {"pkg_shared_loop", "pkg_albums"}
       /\ pc = "pkg_albums" => pc' \in {"pkg_album", "pkg_done"}]_vars

\* The file holds all the bytes of what was downloaded for it: an original
\* the bytes of an asset, a companion the bytes of the video variant.
Complete(path) ==
    IF IsCompanion(path) THEN fs[path].content = VideoContent
    ELSE fs[path].content \in Contents

\* C15: in every state of a run of download_all_photos, every file at a
\* final path, original or companion video, holds the complete bytes that
\* were staged for it; none is empty or partly written.
C15_NoPartialFileAtFinalPath ==
    \A path \in DOMAIN fs : Complete(path)

\* The step commits an asset with a video variant, and fetching the video
\* does not fail.
LiveCommitStep ==
    /\ CommitStep
    /\ Enumerated.photo.live
    /\ Enumerated.vfault = "none"

\* C16 (scenario 3): a step of download_all_photos that commits an asset
\* with a video variant puts the original's bytes at its final path, which
\* in Type/Year mode outside albums lies in <section>/<type>/<year>, and
\* writes the video to <directory of the original>/Videos/<final name of
\* the original, collision suffix included, without extension>.mov, with
\* the asset's created time as the video file's time.
C16_Scenario3 ==
    [][LiveCommitStep =>
        LET h == Enumerated
            final == h.filepath[1]
            video == [dir |-> Append(final.dir, Lit("Videos")),
                      name |-> [prefix |-> final.name.prefix, stem |-> final.name.stem,
                                suffix |-> final.name.suffix, ext |-> ".mov"]]
        IN /\ final \in DOMAIN fs' /\ fs'[final].content = h.photo.content
           /\ h.album = None /\ ~use_location_organization
                => final.dir = <<Lit(h.photo_type),
                                 Lit(get_file_type_folder(h.photo.filename)),
                                 Num(h.photo.created[1].year)>>
           /\ video \in DOMAIN fs'
           /\ fs'[video].content = VideoContent
           /\ fs'[video].mtime = h.photo.created
           /\ DOMAIN fs' = DOMAIN fs \cup {final, video}]_vars

\* In Type/Year mode an asset with a video variant was committed from the
\* personal or the shared section under a name with a collision suffix,
\* and its video was fetched.
C16_Witness ==
    \E k \in Entries :
        /\ Committed(hist[k]) /\ hist[k].photo.live /\ hist[k].vfault = "none"
        /\ hist[k].album = None /\ ~use_location_organization
        /\ hist[k].filepath[1].name.suffix # <<>>
        /\ VideoPath(hist[k].filepath[1]) \in DOMAIN fs

\* <createdAt as YYYYMMDD_HHMMSS, or unknown_date>_<original filename>.
PlannedName(photo) ==
    [prefix |-> IF photo.created = None THEN UnknownDate
                ELSE [kind |-> "date",
                      ymd |-> photo.created[1].year * 10000 + photo.created[1].month * 100
                              + photo.created[1].day,
                      hms |-> photo.created[1].hour * 10000 + photo.created[1].minute * 100
                              + photo.created[1].second],
     stem |-> photo.filename.stem, suffix |-> <<>>, ext |-> photo.filename.ext]

\* The year bucket: the year of created, or unknown_year.
PlannedYear(photo) ==
    IF photo.created = None THEN Lit("unknown_year") ELSE Num(photo.created[1].year)

\* The type category of the two extensions of the asset universe.
PlannedCategory(photo) ==
    IF photo.filename.ext = ".heic" THEN "HEIC" ELSE "JPEG"

C18_LocationBucket ==
    \A k \in Entries :
        Committed(hist[k]) /\ hist[k].album = None /\ use_location_organization =>
            LET photo == hist[k].photo
                bucket == hist[k].filepath[1].dir[2]
            IN /\ photo.location # None =>
                    bucket = LatLon(Round2(photo.location[1].latitude),
                                    Round2(photo.location[1].longitude))
               /\ photo.location = Some(NewYork) => bucket = LatLon(4071, -7401)
               /\ bucket = Lit("Unknown_Location") =>
                    photo.location = None /\ photo.location_enc = None

\* The lines of the end-of-run summary: the statistics header and the
\* closing line.
SummaryWritten ==
    /\ LinesWithText(log, "DOWNLOAD SESSION COMPLETE") # {}
    /\ LinesWithText(log, "Download session ended") # {}

\* C19: when a keyboard interrupt has ended the loop of a section, no file
\* at a final path is empty or partly written, and the end-of-run summary
\* entries are in the progress log.
C19_CancellationFlushesSummary ==
    pc = "interrupted" =>
        /\ \A path \in DOMAIN fs : Complete(path)
        /\ SummaryWritten

\* The last two entries of the progress log are the closing lines of the
\* end-of-run summary.
EndsWithSummary ==
    /\ Len(log) >= 2
    /\ log[Len(log) - 1].message.text = "Download session ended"
    /\ log[Len(log)].message.text = "="
    /\ LinesWithText(log, "DOWNLOAD SESSION COMPLETE") # {}

\* What is left of a run: the sections not yet finished, then the albums
\* not yet finished, then the assets of the running loop.
Remaining ==
    CASE pc = "start" -> 1000
      [] pc = "personal" -> 900
      [] pc = "personal_loop" -> 800 + (total - i)
      [] pc = "shared" -> 700
      [] pc = "shared_loop" -> 600 + (total - i)
      [] pc = "albums" -> 500
      [] pc = "album" -> 400 + 20 * albums_left + 10
      [] pc = "album_loop" -> 400 + 20 * albums_left + (total - i)
      [] pc = "summary" -> 100
      [] OTHER -> 0

\* The run is at a statement it can execute.
CanStep ==
    /\ pc \in {"start", "personal", "personal_loop", "shared", "shared_loop",
                "albums", "album", "album_loop", "summary"}
    /\ pc \in {"personal_loop", "shared_loop", "album_loop"} => i <= total /\ total - i < 10
    /\ pc = "album" => albums_left >= 0

\* C20: every step of a run of download_all_photos, whatever fails in it,
\* brings the run nearer to its end and leaves it at a statement it can
\* execute, so the run terminates; when it has ended, the log holds one
\* summary line with the counts for every selected section, and its last
\* entries are those of the end-of-run summary.
C20_RunEndsWithSummaries ==
    [][/\ Remaining' < Remaining
       /\ ~RunEnded' => CanStep'
       /\ RunEnded' =>
            /\ \A sec \in Selected :
                  Cardinality(LinesWithText(log', CompleteLine(sec))) = 1
            /\ EndsWithSummary']_vars

\* The run is one of the package pipeline.
PkgRun ==
    pc \in {"pkg_personal", "pkg_personal_loop", "pkg_shared", "pkg_shared_loop",
            "pkg_albums", "pkg_album", "pkg_album_loop", "pkg_done", "pkg_aborted"}

\* What the pipeline's dedup index holds for an entry: the key in
\* unique_photo_keys, or the hash in _photo_hashes.
IndexKey(h) == IF PkgRun THEN compute_sha256(h.photo.content) ELSE KeyOf(h)
Index == IF PkgRun THEN photo_hashes ELSE unique_photo_keys

\* The bytes of the entry's asset were staged: the call got past the
\* download.
Staged(h) == h.outcome \notin {"skip_id", "fetch_failed", "error", "interrupted"}

\* C21: in both pipelines, a step in which the move of the staged file
\* fails leaves the asset's key (the hash, in the package) in the dedup
\* index, and stats and the final paths as they were; and a step that
\* enumerates an asset whose key an earlier failed move left in the index
\* does not commit it: when its bytes are staged it is rejected as a
\* duplicate.
C21_FailedMoveKeepsKey ==
    [][EnumStep =>
        /\ Enumerated.outcome = "move_failed" =>
              /\ IndexKey(Enumerated) \in Index'
              /\ stats' = stats /\ fs' = fs
        /\ \A a \in Entries :
              hist[a].outcome = "move_failed" /\ IndexKey(hist[a]) = IndexKey(Enumerated) =>
                  /\ ~Admitted(Enumerated)
                  /\ Staged(Enumerated) => Rejected(Enumerated)
                  /\ fs' = fs /\ stats' = stats]_vars

\* A move failed, a later asset with the same key was rejected, the key is
\* in the index and nothing was committed or counted.
C21_Witness ==
    /\ \E a, b \in Entries :
          /\ a < b
          /\ hist[a].outcome = "move_failed"
          /\ Rejected(hist[b])
          /\ IndexKey(hist[a]) = IndexKey(hist[b])
          /\ IndexKey(hist[a]) \in Index
    /\ stats = EmptyMap /\ fs = EmptyMap

\* C22: in both pipelines, a step in which the download of an asset's
\* bytes fails after the temporary file was created leaves no temporary
\* file behind: the number of leftover temporary files is what it was.
C22_NoStagingFileLeft ==
    [][EnumStep /\ Enumerated.outcome = "fetch_failed" => tmp_files' = tmp_files]_vars

\* The path the companion of a committed entry is written to.
CompanionPath(h) ==
    IF PkgRun THEN PkgVideoPath(h.filepath[1]) ELSE VideoPath(h.filepath[1])

\* The step commits an asset with a video variant and opens the
\* companion's file for writing.
CompanionStep ==
    /\ CommitStep
    /\ Enumerated.photo.live
    /\ Enumerated.vfault # "download"
    /\ PkgRun => config.handle_live_photos

\* C23: in both pipelines, a step that writes the companion video of a
\* live photo writes it to a path that held no file; every companion on
\* disk before the step is the same file afterwards.
C23_CompanionNoClobber ==
    [][CompanionStep =>
        /\ CompanionPath(Enumerated) \notin DOMAIN fs
        /\ \A path \in DOMAIN fs : IsCompanion(path) => fs'[path] = fs[path]]_vars

\* The step commits an asset with a video variant, and fetching the video
\* or reading its bytes fails.
LiveFailStep ==
    /\ CommitStep
    /\ Enumerated.photo.live
    /\ Enumerated.vfault # "none"

\* The leaves of stats whose value the step changes.
ChangedLeaves ==
    {l \in DOMAIN stats' : l \notin DOMAIN stats \/ stats'[l] # stats[l]}

\* What the step leaves of the companion's failure in the state of the run:
\* a log line other than those of a plain commit, or a counter other than
\* those of a plain commit.
LiveFailureRecorded ==
    \/ NewLinesWith(LAMBDA line :
           line.message.text \notin {"Processing", "Downloaded", "Progress update"}) # {}
    \/ skipped' # skipped

\* The effects of a failed companion on the original: the original is at
\* its final path with its bytes, the call returned success, one leaf of
\* stats went up by one, one SUCCESS line was logged, errors is unchanged.
LiveFailureIsNonFatal ==
    LET h == Enumerated
        final == h.filepath[1]
    IN /\ final \in DOMAIN fs' /\ fs'[final].content = h.photo.content
       /\ total_downloaded' = total_downloaded + 1
       /\ get_unique_photo_id(h.photo) \in processed_ids'
       /\ Cardinality(ChangedLeaves) = 1
       /\ \A l \in ChangedLeaves :
             stats'[l] = (IF l \in DOMAIN stats THEN stats[l] ELSE 0) + 1
       /\ Cardinality(NewLinesWith(LAMBDA line : line.level = "SUCCESS")) = 1
       /\ NewLinesWith(IsErrorLine) = {}
       /\ errors' = errors

\* C24: when download_all_photos commits an asset whose companion video
\* cannot be fetched or written, the original stays at its final path,
\* process_photo returns success, exactly one leaf of stats is incremented
\* and one SUCCESS line is logged, the error counter of originals is
\* unchanged, and the failure is recorded in the run's log or counters.
C24_LiveFailureReportedAndCounted ==
    [][LiveFailStep => LiveFailureIsNonFatal /\ LiveFailureRecorded]_vars

\* The files of the series of a destination: the destination itself and
\* the names that differ from it in the suffix only.
TakenInSeries(path) == {p \in DOMAIN fs : Destination(p) = path}

\* The step of the script commits an original whose computed path exists.
CollisionStep ==
    /\ CommitStep /\ ~PkgRun
    /\ Destination(Enumerated.filepath[1]) \in DOMAIN fs

\* C25: when process_photo finds its computed path taken, the loop ends
\* after k+1 existence checks, k being the number of taken names of the
\* series (base, _001, _002, ...); the chosen name is the base name with
\* the smallest free positive counter, as three zero-padded digits between
\* stem and extension; no file is at the chosen path before the move.
C25_CollisionLoop ==
    [][CollisionStep =>
        LET final == Enumerated.filepath[1]
            base == Destination(final)
            k == Cardinality(TakenInSeries(base))
        IN /\ ExistenceChecks(fs, base.dir, base.name, 0) = k + 1
           /\ \E n \in 1..9 :
                 /\ final.name.suffix = <<0, 0, n>>
                 /\ \A m \in 1..(n - 1) :
                       [base EXCEPT !.name.suffix = <<0, 0, m>>] \in DOMAIN fs
           /\ final.name.prefix = base.name.prefix /\ final.name.stem = base.name.stem
           /\ final.name.ext = base.name.ext /\ final.dir = base.dir
           /\ final \notin DOMAIN fs
           /\ final \in DOMAIN fs']_vars

\* Three assets with one computed path were committed: the second as _001,
\* the third, after three existence checks, as _002.
C25_Witness ==
    \E a, b \in Entries :
        /\ a < b /\ Committed(hist[a]) /\ Committed(hist[b]) /\ ~PkgRun
        /\ hist[a].filepath[1].name.suffix = <<0, 0, 1>>
        /\ hist[b].filepath[1].name.suffix = <<0, 0, 2>>
        /\ Destination(hist[a].filepath[1]) = Destination(hist[b].filepath[1])
        /\ Cardinality(TakenInSeries(Destination(hist[b].filepath[1]))) = 3

\* Two assets without id, created in the same second, with the same bytes
\* and different filenames.
SameButFilename(p, q) ==
    /\ p.id = None /\ q.id = None
    /\ p.created # None /\ q.created = p.created
    /\ q.content = p.content
    /\ q.filename # p.filename

\* C26: the key process_photo computes for an asset without id carries
\* createdAtString_filename as identity, so an asset without id is admitted
\* when an asset admitted before it differs from it in the filename only:
\* the keys of the two differ.
C26_FallbackIdentityInKey ==
    [][EnumStep /\ Enumerated.fault = "none" /\ ~PkgRun =>
        \A a \in Entries :
            Admitted(hist[a]) /\ SameButFilename(hist[a].photo, Enumerated.photo) =>
                /\ KeyOf(Enumerated) # KeyOf(hist[a])
                /\ Enumerated.outcome # "skip_id" => Admitted(Enumerated)]_vars

\* All assets enumerated so far came from one section (one album).
OneSection ==
    \A a, b \in Entries :
        hist[a].photo_type = hist[b].photo_type /\ hist[a].album = hist[b].album

\* The orders in which n assets can be enumerated.
Orders(n) == {f \in [1..n -> 1..n] : \A a, b \in 1..n : f[a] = f[b] => a = b}

\* The assets enumerated so far, in the order f.
Reordered(f) == [k \in Entries |-> hist[f[k]].photo]

\* The fold agrees with the run: the assets in the order of the run give
\* the run's total.
ReplayIsFaithful ==
    OneSection => CommittedTotal(Reordered([k \in Entries |-> k]), {}, {}) = total_downloaded

\* C27: without faults, the number of assets download_all_photos commits
\* from the assets of one section is the same for every order in which the
\* section yields them.
C27_OrderIndependentTotal ==
    OneSection =>
        \A f \in Orders(Len(hist)) : CommittedTotal(Reordered(f), {}, {}) = total_downloaded

\* The step of the script finds the asset's unique id in processed_ids.
SkipByIdStep == EnumStep /\ ~PkgRun /\ Enumerated.outcome = "skip_id"

\* C28: a step of download_all_photos whose asset's unique id is already in
\* processed_ids fetches nothing (no fault of a download can be raised),
\* creates no temporary and no final file, and leaves stats,
\* unique_photo_keys, processed_ids, total_downloaded and errors as they
\* are; it adds one to skipped and one line, the SKIP line with the id and
\* the filename, to the progress log.
C28_SkipByIdFrame ==
    [][SkipByIdStep =>
        /\ get_unique_photo_id(Enumerated.photo) \in processed_ids
        /\ Enumerated.fault = "none" /\ Enumerated.vfault = "none"
        /\ Enumerated.filepath = None
        /\ tmp_files' = tmp_files /\ fs' = fs
        /\ stats' = stats /\ unique_photo_keys' = unique_photo_keys
        /\ processed_ids' = processed_ids
        /\ total_downloaded' = total_downloaded /\ errors' = errors
        /\ photo_hashes' = photo_hashes /\ pc' = pc
        /\ skipped' = skipped + 1
        /\ Len(NewLines) = 1 /\ IsSkipLine(NewLines[1])
        /\ NewLines[1].message.uid = Some(get_unique_photo_id(Enumerated.photo))
        /\ NewLines[1].message.filename = Some(Enumerated.photo.filename)
        /\ entry_counter' = entry_counter + 1]_vars

\* An asset was committed, and a later asset with its unique id was
\* skipped: one download, one skip, one file, one key.
C28_Witness ==
    /\ \E a, b \in Entries :
          /\ a < b /\ Committed(hist[a]) /\ hist[b].outcome = "skip_id"
          /\ get_unique_photo_id(hist[a].photo) = get_unique_photo_id(hist[b].photo)
    /\ ~PkgRun /\ skipped = 1 /\ total_downloaded = 1 /\ errors = 0
    /\ Cardinality(processed_ids) = 1 /\ Cardinality(unique_photo_keys) = 1
    /\ tmp_files = 0

\* The free space is known and below the required space.
LowDiskSpace == env.free_gb # None /\ env.free_gb[1] < config.required_space_gb

\* What holds of start's gate: a failed check asks the user, declining ends
\* the run before any asset was fetched, and only "y" goes on.
GateAsksAndCancels ==
    /\ pc = "pkg_start" /\ pc' = "pkg_confirm" =>
          Not(check_disk_space(env.free_gb, config.required_space_gb))
    /\ pc = "pkg_confirm" /\ pc' = "pkg_personal" => env.answer \in {"y", "Y"}
    /\ pc' = "pkg_cancelled" =>
          /\ pc = "pkg_confirm" /\ env.answer = "n"
          /\ hist' = <<>> /\ fs' = EmptyMap /\ tmp_files' = 0 /\ stats' = EmptyMap

\* C29: PhotoDownloader.start asks the user for confirmation whenever the
\* free space check_disk_space finds is below download.required_space_gb;
\* declining ends the run with no asset fetched; the download starts
\* without a confirmation only if the free space is at least the required
\* space.
C29_LowDiskSpaceGate ==
    [][/\ pc = "pkg_start" /\ LowDiskSpace => pc' \in {"pkg_start", "pkg_confirm"}
       /\ pc = "pkg_start" /\ pc' = "pkg_personal" =>
             env.free_gb # None /\ env.free_gb[1] >= config.required_space_gb
       /\ GateAsksAndCancels]_vars

====
